---- MODULE Spec2Model ----
(***************************************************************************)
(* The chat session store and turn processing of agent-aletheia:           *)
(* ChatService (services/chat.py) behind the routes of routes/chat.py,     *)
(* and the idea scoring of IdeaScoringService (services/scoring.py).       *)
(* Spec serves one request at a time; SpecC lets turns wait for the model  *)
(* while other requests are served;                                        *)
(* requests are served; SpecScoring and SpecTopics apply score_idea and    *)
(* _extract_topics to a range of inputs.                                   *)
(*                                                                         *)
(* Identifiers (uuid4 values): the n-th session made is session n, the n-th *)
(* message of session s is message <<s, n>>; 0 is an absent identifier     *)
(* (None).  Confidences are in hundredths (80 is 0.8).  The update         *)
(* timestamp of a session is the number of times it was refreshed.  Text   *)
(* is a string; Chars gives its characters so that lower-casing and        *)
(* substring search are computed character by character.                   *)
(***************************************************************************)
EXTENDS Integers, Sequences, FiniteSets, TLC

VARIABLES sessions,   \* ChatService.sessions: session id -> ChatSession
          messages,   \* ChatService.messages: session id -> list of ChatMessage
          turns,      \* history: session id -> number of completed send_message calls
          closed,     \* history: the sessions close_session has closed
          last,       \* history: the last request served and what the caller got
          mnemosyne,  \* ChatService.mnemosyne_client: "none" (None), which the constructor leaves
          scoring,    \* IdeaScoringService: configuration, idea and what was computed
          extraction, \* _extract_topics: message, explicit topics and what was returned
          inflight    \* the turns of send_message waiting for the reply of the model

vars == <<sessions, messages, turns, closed, last, mnemosyne, scoring, extraction, inflight>>

(***************************************************************************)
(* Bounds of the model.                                                    *)
(***************************************************************************)
MaxOps == 4    \* requests that change the store (create, send, feedback, close), in all

None == 0
NoUser == ""
Users == {NoUser, "user1"}
FeedbackTypes == {"accept", "reject", "flag"}

(***************************************************************************)
(* Text.                                                                   *)
(***************************************************************************)
Chars(s) ==
    CASE s = "hello" -> <<"h", "e", "l", "l", "o">>
      [] s = "Main Treasury" ->
            <<"M", "a", "i", "n", " ", "T", "r", "e", "a", "s", "u", "r", "y">>
      [] s = "AI" -> <<"A", "I">>
      [] s = "technology" -> <<"t", "e", "c", "h", "n", "o", "l", "o", "g", "y">>
      [] s = "business" -> <<"b", "u", "s", "i", "n", "e", "s", "s">>
      [] s = "liquidity" -> <<"l", "i", "q", "u", "i", "d", "i", "t", "y">>
      [] s = "tokenized" -> <<"t", "o", "k", "e", "n", "i", "z", "e", "d">>
      [] s = "stablecoin" -> <<"s", "t", "a", "b", "l", "e", "c", "o", "i", "n">>
      [] s = "deposits" -> <<"d", "e", "p", "o", "s", "i", "t", "s">>
      [] s = "treasury" -> <<"t", "r", "e", "a", "s", "u", "r", "y">>
      [] s = "commerce" -> <<"c", "o", "m", "m", "e", "r", "c", "e">>
      [] s = "Notes" ->
            <<"N", "o", "t", "e", "s">>
      [] s = "treasury and liquidity management" ->
            <<"t", "r", "e", "a", "s", "u", "r", "y", " ", "a", "n", "d", " ", "l", "i", "q", "u", "i", "d", "i", "t", "y", " ", "m", "a", "n", "a", "g", "e", "m", "e", "n", "t">>
      [] s = "AI spam" ->
            <<"A", "I", " ", "s", "p", "a", "m">>
      [] s = "business technology" ->
            <<"b", "u", "s", "i", "n", "e", "s", "s", " ", "t", "e", "c", "h", "n", "o", "l", "o", "g", "y">>
      [] s = "Treasury treasury" ->
            <<"T", "r", "e", "a", "s", "u", "r", "y", " ", "t", "r", "e", "a", "s", "u", "r", "y">>
      [] s = "Tokenized treasury" ->
            <<"T", "o", "k", "e", "n", "i", "z", "e", "d", " ", "t", "r", "e", "a", "s", "u", "r", "y">>
      [] s = "Spam" ->
            <<"S", "p", "a", "m">>

UpperCase == <<"A", "B", "C", "D", "E", "F", "G", "H", "I", "J", "K", "L", "M",
               "N", "O", "P", "Q", "R", "S", "T", "U", "V", "W", "X", "Y", "Z">>
LowerCase == <<"a", "b", "c", "d", "e", "f", "g", "h", "i", "j", "k", "l", "m",
               "n", "o", "p", "q", "r", "s", "t", "u", "v", "w", "x", "y", "z">>

\* str.lower(), on a sequence of characters
lower(cs) ==
    [i \in 1..Len(cs) |->
        IF \E k \in 1..Len(UpperCase) : UpperCase[k] = cs[i]
        THEN LowerCase[CHOOSE k \in 1..Len(UpperCase) : UpperCase[k] = cs[i]]
        ELSE cs[i]]

\* needle in hay, on sequences of characters
Contains(hay, needle) ==
    \E i \in 0..(Len(hay) - Len(needle)) :
        \A j \in 1..Len(needle) : hay[i + j] = needle[j]

Range(seq) == {seq[i] : i \in 1..Len(seq)}

RECURSIVE SumOver(_, _)
SumOver(f, S) ==
    IF S = {} THEN 0
    ELSE LET x == CHOOSE y \in S : TRUE IN f[x] + SumOver(f, S \ {x})

(***************************************************************************)
(* The models of agent_sdk.models.chat the service uses.                   *)
(***************************************************************************)
DefaultContextConfidence == 100

\* ChatSession(user_id = ...): a new session with its defaults
ChatSession(id, user_id) ==
    [id |-> id, user_id |-> user_id, is_active |-> TRUE, message_count |-> 0,
     topics |-> <<>>, ideas_generated |-> 0, ideas_accepted |-> 0,
     ideas_rejected |-> 0, context_confidence |-> DefaultContextConfidence,
     updated_at |-> 0]

\* ChatMessage(session_id = ..., role = ..., ...)
ChatMessage(id, session_id, role, content, idea_refs, context_confidence) ==
    [id |-> id, session_id |-> session_id, role |-> role, content |-> content,
     idea_refs |-> idea_refs, context_confidence |-> context_confidence]

\* ChatSession.increment_message_count
increment_message_count(session) ==
    [session EXCEPT !.message_count = @ + 1]

\* ChatSession.add_topic: insertion-ordered, no duplicates
add_topic(session, topic) ==
    IF topic \in Range(session.topics) THEN session
    ELSE [session EXCEPT !.topics = Append(@, topic)]

\* ChatSession.record_idea
record_idea(session, accepted) ==
    IF accepted
    THEN [session EXCEPT !.ideas_generated = @ + 1, !.ideas_accepted = @ + 1]
    ELSE [session EXCEPT !.ideas_generated = @ + 1, !.ideas_rejected = @ + 1]

\* ChatSession.touch: updated_at counts the refreshes of the update timestamp
touch(session) ==
    [session EXCEPT !.updated_at = @ + 1]

(***************************************************************************)
(* ChatService.  A store st is [sessions, messages]; an operation gives    *)
(* the store it leaves and what it returns or raises.                      *)
(***************************************************************************)
NoSession == [absent |-> TRUE]
NoResult == [absent |-> TRUE]

\* ChatService.__init__: mnemosyne_client = None; `if self.mnemosyne_client`
mnemosyne_client == mnemosyne # "none"

\* ChatService.__init__: ideas_cache = {}, which no method fills or reads
ideas_cache == {}

\* uuid4() of a new session: the n-th session made is session n
NewSessionId(st) == Cardinality(DOMAIN st.sessions) + 1
\* uuid4() of a new message: the n-th message of session s is message <<s, n>>
NewMessageId(st, session_id) == <<session_id, Len(st.messages[session_id]) + 1>>

create_session(st, user_id) ==
    LET id == NewSessionId(st)
        session == ChatSession(id, user_id)
    IN [sessions |-> [s \in DOMAIN st.sessions \cup {id} |->
                        IF s = id THEN session ELSE st.sessions[s]],
        messages |-> [s \in DOMAIN st.messages \cup {id} |->
                        IF s = id THEN <<>> ELSE st.messages[s]],
        result |-> session]

\* a lookup under str(session_id): no key of the dictionary is a string
get_session_StrKey(st, session_id) == NoSession

get_session(st, session_id) ==
    IF session_id \in DOMAIN st.sessions THEN st.sessions[session_id] ELSE NoSession

\* the sessions listed, in the order of the dictionary (creation order)
RECURSIVE Listed(_, _, _, _)
Listed(st, user_id, active_only, n) ==
    IF n = 0 THEN <<>>
    ELSE LET s == st.sessions[n]
             keep == /\ (user_id # NoUser => s.user_id = user_id)
                     /\ (active_only => s.is_active)
         IN IF keep THEN Append(Listed(st, user_id, active_only, n - 1), s)
            ELSE Listed(st, user_id, active_only, n - 1)

\* the active_only filter left out
list_sessions_NoActiveFilter(st, user_id, active_only) ==
    LET found == Listed(st, user_id, FALSE, Cardinality(DOMAIN st.sessions))
    IN [sessions |-> found,
        total |-> Len(found),
        active_count |-> Cardinality({i \in 1..Len(found) : found[i].is_active})]

\* active_count taken over every session of the store, before the filters
list_sessions_CountBeforeFilter(st, user_id, active_only) ==
    LET found == Listed(st, user_id, active_only, Cardinality(DOMAIN st.sessions))
    IN [sessions |-> found,
        total |-> Len(found),
        active_count |->
            Cardinality({s \in DOMAIN st.sessions : st.sessions[s].is_active})]

list_sessions(st, user_id, active_only) ==
    LET found == Listed(st, user_id, active_only, Cardinality(DOMAIN st.sessions))
    IN [sessions |-> found,
        total |-> Len(found),
        active_count |-> Cardinality({i \in 1..Len(found) : found[i].is_active})]

get_session_history(st, session_id) ==
    LET session == get_session(st, session_id)
    IN IF session = NoSession THEN NoResult
       ELSE LET msgs == IF session_id \in DOMAIN st.messages
                        THEN st.messages[session_id] ELSE <<>>
            IN [session |-> session,
                messages |-> msgs,
                ideas_referenced |->
                    UNION {Range(msgs[i].idea_refs) : i \in 1..Len(msgs)}]

\* the last n elements of a list: list[-n:]  (list[-0:] is the whole list)
LastN(seq, n) ==
    IF n = 0 \/ n >= Len(seq) THEN seq
    ELSE SubSeq(seq, Len(seq) - n + 1, Len(seq))

\* the vocabulary of _extract_topics
keywords == <<"AI", "technology", "business", "liquidity", "tokenized",
              "stablecoin", "deposits", "treasury", "commerce">>

RECURSIVE ExtractFrom(_, _, _)
ExtractFrom(message_lower, topics, k) ==
    IF k > Len(keywords) THEN topics
    ELSE LET keyword == keywords[k]
         IN IF /\ Contains(message_lower, lower(Chars(keyword)))
               /\ keyword \notin Range(topics)
            THEN ExtractFrom(message_lower, Append(topics, keyword), k + 1)
            ELSE ExtractFrom(message_lower, topics, k + 1)

_extract_topics(message, explicit_topics) ==
    ExtractFrom(lower(Chars(message)), explicit_topics, 1)

Messages == {"hello", "Main Treasury"}
ExplicitTopics == {<<>>, <<"treasury", "ai">>}

\* _extract_topics on the requests of the model, computed once
TopicsOf ==
    [m \in Messages |-> [e \in ExplicitTopics |-> _extract_topics(m, e)]]

\* the topics added from the last to the first
RECURSIVE AddTopics_Reversed(_, _, _)
AddTopics_Reversed(session, topics, k) ==
    IF k > Len(topics) THEN session
    ELSE add_topic(AddTopics_Reversed(session, topics, k + 1), topics[k])

\* for topic in topics: session.add_topic(topic)
RECURSIVE AddTopics(_, _, _)
AddTopics(session, topics, k) ==
    IF k > Len(topics) THEN session
    ELSE AddTopics(add_topic(session, topics[k]), topics, k + 1)

\* recent_messages[:-1] left out: the message of the turn is in its own context
prior_context_WithCurrent(st, session, context_window) ==
    LET msgs == IF session.id \in DOMAIN st.messages
                THEN st.messages[session.id] ELSE <<>>
    IN IF Len(msgs) > 0 THEN LastN(msgs, context_window) ELSE <<>>

\* _generate_response, the history given as context: the last context_window
\* messages without the last of them
prior_context(st, session, context_window) ==
    LET msgs == IF session.id \in DOMAIN st.messages
                THEN st.messages[session.id] ELSE <<>>
        recent_messages == IF Len(msgs) > 0 THEN LastN(msgs, context_window) ELSE <<>>
    IN IF Len(recent_messages) = 0 THEN <<>>
       ELSE SubSeq(recent_messages, 1, Len(recent_messages) - 1)

\* _generate_response, the reply: the message (all texts here are shorter than
\* the 50 characters kept) and the first two topics of the session
_generate_response(st, session, message, context_window) ==
    [about |-> message,
     topics |-> SubSeq(session.topics, 1, IF Len(session.topics) < 2
                                           THEN Len(session.topics) ELSE 2)]

_search_ideas(topics, session) == <<>>

\* insert(0, message) in place of append(message)
AppendMessage_Prepend(st, session_id, message) ==
    [st EXCEPT !.messages[session_id] = <<message>> \o @]

\* one list object shared by the sessions: an append shows in every history
AppendMessage_SharedList(st, session_id, message) ==
    [st EXCEPT !.messages = [s \in DOMAIN @ |-> Append(@[s], message)]]

\* the last message of the list replaced by the new one
AppendMessage_ReplaceLast(st, session_id, message) ==
    [st EXCEPT !.messages[session_id] =
        IF Len(@) = 0 THEN <<message>> ELSE [@ EXCEPT ![Len(@)] = message]]

\* self.messages[session.id].append(message)
AppendMessage(st, session_id, message) ==
    [st EXCEPT !.messages[session_id] = Append(@, message)]

\* a mutation of the session object, which the store holds by reference
PutSession(st, session) ==
    [st EXCEPT !.sessions[session.id] = session]

\* the snapshot the turn resolves, taken for the user message too
UserMessage_ResolvedConfidence(st0, session0, request) ==
    ChatMessage(NewMessageId(st0, session0.id), session0.id, "user", request.message,
                <<>>,
                IF mnemosyne_client THEN 90 ELSE 80)

\* send_message lines 143-149: the user message of the turn
UserMessage(st0, session0, request) ==
    ChatMessage(NewMessageId(st0, session0.id), session0.id, "user", request.message,
                <<>>, session0.context_confidence)

\* the user message stored and not counted: line 151 left out
TurnStart_NoCount(st0, session0, request) ==
    LET sid == session0.id
        user_message == UserMessage(st0, session0, request)
        st1 == AppendMessage(st0, sid, user_message)
        session1 == session0
        topics == TopicsOf[request.message][request.topics]
        session2 == AddTopics(session1, topics, 1)
        st2 == PutSession(st1, session2)
        mnemosyne_available == mnemosyne_client
        context_confidence == IF mnemosyne_available THEN 90 ELSE 80
    IN [sessions |-> st2.sessions,
        messages |-> st2.messages,
        session_id |-> sid,
        topics |-> topics,
        context_confidence |-> context_confidence,
        mnemosyne_available |-> mnemosyne_available,
        context |-> prior_context(st2, session2, request.context_window),
        user_message_id |-> user_message.id]

\* send_message lines 143-172, from the resolved session to the call of
\* _generate_response: the user message, the topics, the context query, and
\* the history _generate_response reads before it calls the model
TurnStart(st0, session0, request) ==
    LET sid == session0.id
        user_message == UserMessage(st0, session0, request)
        st1 == AppendMessage(st0, sid, user_message)
        session1 == increment_message_count(session0)
        topics == TopicsOf[request.message][request.topics]
        session2 == AddTopics(session1, topics, 1)
        st2 == PutSession(st1, session2)
        mnemosyne_available == mnemosyne_client
        context_confidence == IF mnemosyne_available THEN 90 ELSE 80
    IN [sessions |-> st2.sessions,
        messages |-> st2.messages,
        session_id |-> sid,
        topics |-> topics,
        context_confidence |-> context_confidence,
        mnemosyne_available |-> mnemosyne_available,
        context |-> prior_context(st2, session2, request.context_window),
        user_message_id |-> user_message.id]

\* the session left with the confidence it had: line 195 left out
TurnFinish_KeepsSessionConfidence(st, turn, request) ==
    LET sid == turn.session_id
        session2 == st.sessions[sid]
        response_content ==
            _generate_response(st, session2, request.message, request.context_window)
        ideas == IF request.include_ideas THEN _search_ideas(turn.topics, session2) ELSE <<>>
        assistant_message == ChatMessage(NewMessageId(st, sid), sid, "assistant",
                                         response_content, ideas, turn.context_confidence)
        st3 == AppendMessage(st, sid, assistant_message)
        session3 == increment_message_count(session2)
        session4 == touch(session3)
        st4 == PutSession(st3, session4)
    IN [sessions |-> st4.sessions,
        messages |-> st4.messages,
        raised |-> "none",
        context |-> turn.context,
        response |-> [session_id |-> sid,
                      message_id |-> assistant_message.id,
                      content |-> response_content,
                      ideas |-> ideas,
                      topics_discussed |-> turn.topics,
                      context_confidence |-> turn.context_confidence,
                      mnemosyne_available |-> turn.mnemosyne_available]]

\* the count written back from the value the turn read when it began
TurnFinish_StaleCount(st, turn, request) ==
    LET sid == turn.session_id
        session2 == st.sessions[sid]
        response_content ==
            _generate_response(st, session2, request.message, request.context_window)
        ideas == IF request.include_ideas THEN _search_ideas(turn.topics, session2) ELSE <<>>
        assistant_message == ChatMessage(NewMessageId(st, sid), sid, "assistant",
                                         response_content, ideas, turn.context_confidence)
        st3 == AppendMessage(st, sid, assistant_message)
        session3 == [session2 EXCEPT !.message_count = turn.user_message_id[2] + 1]
        session4 == touch([session3 EXCEPT !.context_confidence = turn.context_confidence])
        st4 == PutSession(st3, session4)
    IN [sessions |-> st4.sessions,
        messages |-> st4.messages,
        raised |-> "none",
        context |-> turn.context,
        response |-> [session_id |-> sid,
                      message_id |-> assistant_message.id,
                      content |-> response_content,
                      ideas |-> ideas,
                      topics_discussed |-> turn.topics,
                      context_confidence |-> turn.context_confidence,
                      mnemosyne_available |-> turn.mnemosyne_available]]

\* send_message lines 173-220, from the reply of the model to the response;
\* the session is the object of the store, as it is by then
TurnFinish(st, turn, request) ==
    LET sid == turn.session_id
        session2 == st.sessions[sid]
        response_content ==
            _generate_response(st, session2, request.message, request.context_window)
        ideas == IF request.include_ideas THEN _search_ideas(turn.topics, session2) ELSE <<>>
        assistant_message == ChatMessage(NewMessageId(st, sid), sid, "assistant",
                                         response_content, ideas, turn.context_confidence)
        st3 == AppendMessage(st, sid, assistant_message)
        session3 == increment_message_count(session2)
        session4 == touch([session3 EXCEPT !.context_confidence = turn.context_confidence])
        st4 == PutSession(st3, session4)
    IN [sessions |-> st4.sessions,
        messages |-> st4.messages,
        raised |-> "none",
        context |-> turn.context,
        response |-> [session_id |-> sid,
                      message_id |-> assistant_message.id,
                      content |-> response_content,
                      ideas |-> ideas,
                      topics_discussed |-> turn.topics,
                      context_confidence |-> turn.context_confidence,
                      mnemosyne_available |-> turn.mnemosyne_available]]

\* send_message from the point where the session is resolved (lines 143-220),
\* no other request served in between
ProcessTurn(st0, session0, request) ==
    LET turn == TurnStart(st0, session0, request)
    IN TurnFinish([sessions |-> turn.sessions, messages |-> turn.messages],
                  turn, request)

\* get-or-create: an unknown session identifier makes a new session
send_message_GetOrCreate(st, request) ==
    LET session == get_session(st, request.session_id)
    IN IF request.session_id # None /\ session # NoSession
       THEN ProcessTurn(st, session, request)
       ELSE LET c == create_session(st, NoUser)
            IN ProcessTurn([sessions |-> c.sessions, messages |-> c.messages],
                           c.result, request)

\* the session found is checked and then not used: every turn opens a session
send_message_AlwaysNew(st, request) ==
    IF request.session_id # None /\ get_session(st, request.session_id) = NoSession
    THEN [sessions |-> st.sessions, messages |-> st.messages,
          raised |-> "ValueError", context |-> <<>>, response |-> NoResult]
    ELSE LET c == create_session(st, NoUser)
         IN ProcessTurn([sessions |-> c.sessions, messages |-> c.messages],
                        c.result, request)

\* a closed session refused as if it were unknown
send_message_RefusesClosed(st, request) ==
    IF request.session_id # None
    THEN LET session == get_session(st, request.session_id)
         IN IF session = NoSession \/ ~session.is_active
            THEN [sessions |-> st.sessions, messages |-> st.messages,
                  raised |-> "ValueError", context |-> <<>>, response |-> NoResult]
            ELSE ProcessTurn(st, session, request)
    ELSE LET c == create_session(st, NoUser)
         IN ProcessTurn([sessions |-> c.sessions, messages |-> c.messages],
                        c.result, request)

send_message(st, request) ==
    IF request.session_id # None
    THEN LET session == get_session(st, request.session_id)
         IN IF session = NoSession
            THEN [sessions |-> st.sessions, messages |-> st.messages,
                  raised |-> "ValueError", context |-> <<>>, response |-> NoResult]
            ELSE ProcessTurn(st, session, request)
    ELSE LET c == create_session(st, NoUser)
         IN ProcessTurn([sessions |-> c.sessions, messages |-> c.messages],
                        c.result, request)

FeedbackNotFound(st) ==
    [sessions |-> st.sessions, messages |-> st.messages,
     response |-> [success |-> FALSE, message |-> "not found",
                   updated_context_confidence |-> None]]

FeedbackRecorded(st, recorded) ==
    LET st1 == PutSession(st, recorded)
    IN [sessions |-> st1.sessions, messages |-> st1.messages,
        response |-> [success |-> TRUE, message |-> "recorded",
                      updated_context_confidence |-> recorded.context_confidence]]

\* record_idea(accepted=True) in the reject branch too
submit_feedback_RejectAsAccept(st, feedback) ==
    LET session == get_session(st, feedback.session_id)
    IN IF session = NoSession THEN FeedbackNotFound(st)
       ELSE FeedbackRecorded(st,
                IF feedback.feedback_type \in {"accept", "reject"}
                THEN record_idea(session, TRUE) ELSE session)

\* else in place of elif: a flag is recorded as a rejection
submit_feedback_FlagAsReject(st, feedback) ==
    LET session == get_session(st, feedback.session_id)
    IN IF session = NoSession THEN FeedbackNotFound(st)
       ELSE FeedbackRecorded(st,
                IF feedback.feedback_type = "accept"
                THEN record_idea(session, TRUE) ELSE record_idea(session, FALSE))

\* the session check left out of the result: an unknown session is acknowledged
submit_feedback_NoCheck(st, feedback) ==
    LET session == get_session(st, feedback.session_id)
    IN IF session = NoSession
       THEN [sessions |-> st.sessions, messages |-> st.messages,
             response |-> [success |-> TRUE, message |-> "recorded",
                           updated_context_confidence |-> None]]
       ELSE FeedbackRecorded(st,
                IF feedback.feedback_type = "accept" THEN record_idea(session, TRUE)
                ELSE IF feedback.feedback_type = "reject"
                     THEN record_idea(session, FALSE)
                     ELSE session)

\* the idea looked up in ideas_cache first: an unknown idea is refused
submit_feedback_ChecksIdea(st, feedback) ==
    LET session == get_session(st, feedback.session_id)
    IN IF session = NoSession \/ feedback.idea_id \notin ideas_cache
       THEN FeedbackNotFound(st)
       ELSE FeedbackRecorded(st,
                IF feedback.feedback_type = "accept" THEN record_idea(session, TRUE)
                ELSE IF feedback.feedback_type = "reject"
                     THEN record_idea(session, FALSE)
                     ELSE session)

submit_feedback(st, feedback) ==
    LET session == get_session(st, feedback.session_id)
    IN IF session = NoSession THEN FeedbackNotFound(st)
       ELSE FeedbackRecorded(st,
                IF feedback.feedback_type = "accept" THEN record_idea(session, TRUE)
                ELSE IF feedback.feedback_type = "reject"
                     THEN record_idea(session, FALSE)
                     ELSE session)

\* closing clears the idea counters of the session
close_session_ResetsCounters(st, session_id) ==
    LET session == get_session(st, session_id)
    IN IF session = NoSession
       THEN [sessions |-> st.sessions, messages |-> st.messages, status |-> 404]
       ELSE LET st1 == PutSession(st, touch([session EXCEPT !.is_active = FALSE,
                                                           !.ideas_generated = 0,
                                                           !.ideas_accepted = 0,
                                                           !.ideas_rejected = 0]))
            IN [sessions |-> st1.sessions, messages |-> st1.messages, status |-> 204]

\* closing counted as a message of the session
close_session_CountsMessage(st, session_id) ==
    LET session == get_session(st, session_id)
    IN IF session = NoSession
       THEN [sessions |-> st.sessions, messages |-> st.messages, status |-> 404]
       ELSE LET st1 == PutSession(st, touch(increment_message_count(
                                          [session EXCEPT !.is_active = FALSE])))
            IN [sessions |-> st1.sessions, messages |-> st1.messages, status |-> 204]

\* closing drops the history of the session
close_session_ClearsHistory(st, session_id) ==
    LET session == get_session(st, session_id)
    IN IF session = NoSession
       THEN [sessions |-> st.sessions, messages |-> st.messages, status |-> 404]
       ELSE LET st1 == PutSession(st, touch([session EXCEPT !.is_active = FALSE]))
            IN [sessions |-> st1.sessions,
                messages |-> [st1.messages EXCEPT ![session_id] = <<>>],
                status |-> 204]

\* routes/chat.py close_session
close_session(st, session_id) ==
    LET session == get_session(st, session_id)
    IN IF session = NoSession
       THEN [sessions |-> st.sessions, messages |-> st.messages, status |-> 404]
       ELSE LET st1 == PutSession(st, touch([session EXCEPT !.is_active = FALSE]))
            IN [sessions |-> st1.sessions, messages |-> st1.messages, status |-> 204]

(***************************************************************************)
(* IdeaScoringService (services/scoring.py).  Weights and the minimum      *)
(* score are in hundredths (90 is 0.9); the share of a topic's keywords    *)
(* found is in sixths, a topic score in 1/600, a component score in        *)
(* 1/6000 (6000 is 1.0) and a composite score in 1/600000, so that every   *)
(* value of the model is the exact value of the expression of the code.    *)
(***************************************************************************)
TopicConfig(name, topic_keywords, weight) ==
    [name |-> name, keywords |-> topic_keywords, weight |-> weight]

ScoringConfig(novelty_weight, topicality_weight, relevance_weight, minimum_score) ==
    [novelty_weight |-> novelty_weight, topicality_weight |-> topicality_weight,
     relevance_weight |-> relevance_weight, minimum_score |-> minimum_score]

AletheiaConfig(primary_topics, secondary_topics, exclude_topics, scoring_config) ==
    [primary_topics |-> primary_topics, secondary_topics |-> secondary_topics,
     exclude_topics |-> exclude_topics, scoring |-> scoring_config]

IdeaModel(id, title, content) == [id |-> id, title |-> title, content |-> content]

Min(a, b) == IF a <= b THEN a ELSE b
Max(a, b) == IF a >= b THEN a ELSE b

\* f"{idea.title} {idea.content}".lower()
content_lower(idea) == lower(Chars(idea.title) \o <<" ">> \o Chars(idea.content))

\* the exclusion test on the keyword as configured, not lower-cased
IsExcluded_CaseSensitive(config, hay) ==
    \E i \in 1..Len(config.exclude_topics) :
        Contains(hay, Chars(config.exclude_topics[i]))

\* any(excluded.lower() in content_lower for excluded in self.exclude_topics)
IsExcluded(config, hay) ==
    \E i \in 1..Len(config.exclude_topics) :
        Contains(hay, lower(Chars(config.exclude_topics[i])))

\* sum(1 for keyword in topic.keywords if keyword.lower() in content_lower)
matches(topic, hay) ==
    Cardinality({i \in 1..Len(topic.keywords) :
                    Contains(hay, lower(Chars(topic.keywords[i])))})

\* the share of the keywords left out: matches * weight
topic_score_NoShare(topic, hay) ==
    IF matches(topic, hay) > 0
    THEN [raised |-> "none", counted |-> TRUE,
          score |-> matches(topic, hay) * 6 * topic.weight]
    ELSE [raised |-> "none", counted |-> FALSE, score |-> 0]

\* `if matches > 0` left out: the division is made for every topic
topic_score_NoGuard(topic, hay) ==
    IF Len(topic.keywords) = 0
    THEN [raised |-> "ZeroDivisionError", counted |-> FALSE, score |-> 0]
    ELSE [raised |-> "none", counted |-> TRUE,
          score |-> Min((matches(topic, hay) * 6) \div Len(topic.keywords), 6)
                        * topic.weight]

\* one pass of the topic loops: min(matches / len(topic.keywords), 1.0) *
\* topic.weight for a topic with a match, which alone is counted
topic_score(topic, hay) ==
    IF matches(topic, hay) > 0
    THEN [raised |-> "none", counted |-> TRUE,
          score |-> Min((matches(topic, hay) * 6) \div Len(topic.keywords), 6)
                        * topic.weight]
    ELSE [raised |-> "none", counted |-> FALSE, score |-> 0]

\* the topic scores of a group added up
RECURSIVE group_score_Sum(_, _, _)
group_score_Sum(topics, hay, n) ==
    IF n = 0 THEN [raised |-> "none", score |-> 0]
    ELSE LET before == group_score_Sum(topics, hay, n - 1)
             this == topic_score(topics[n], hay)
         IN IF before.raised # "none" THEN before
            ELSE IF this.raised # "none" THEN [raised |-> this.raised, score |-> 0]
            ELSE [raised |-> "none", score |-> before.score + this.score]

\* primary_score / secondary_score after the first n topics of the loop:
\* 0.0 at the start, then max(score so far, topic_score)
RECURSIVE group_score(_, _, _)
group_score(topics, hay, n) ==
    IF n = 0 THEN [raised |-> "none", score |-> 0]
    ELSE LET before == group_score(topics, hay, n - 1)
             this == topic_score(topics[n], hay)
         IN IF before.raised # "none" THEN before
            ELSE IF this.raised # "none" THEN [raised |-> this.raised, score |-> 0]
            ELSE IF this.counted
                 THEN [raised |-> "none", score |-> Max(before.score, this.score)]
                 ELSE before

_calculate_relevance(config, idea) ==
    LET hay == content_lower(idea)
        primary_score == group_score(config.primary_topics, hay,
                                     Len(config.primary_topics))
        secondary_score == group_score(config.secondary_topics, hay,
                                       Len(config.secondary_topics))
    IN IF IsExcluded(config, hay) THEN [raised |-> "none", value |-> 0]
       ELSE IF primary_score.raised # "none"
            THEN [raised |-> primary_score.raised, value |-> 0]
       ELSE IF secondary_score.raised # "none"
            THEN [raised |-> secondary_score.raised, value |-> 0]
       ELSE [raised |-> "none",
             value |-> Min(primary_score.score * 7 + secondary_score.score * 3, 6000)]

\* return 0.8
_calculate_novelty(idea) == 4800

\* return 0.7
_calculate_topicality(idea) == 4200

\* the weighted sum of score_idea and the IdeaScore made of it
IdeaScore(config, idea_id, relevance, novelty, topicality) ==
    [raised |-> "none",
     idea_id |-> idea_id,
     relevance_score |-> relevance,
     novelty_score |-> novelty,
     topicality_score |-> topicality,
     composite_score |-> relevance * config.scoring.relevance_weight
                         + novelty * config.scoring.novelty_weight
                         + topicality * config.scoring.topicality_weight]

score_idea(config, idea) ==
    LET relevance == _calculate_relevance(config, idea)
    IN IF relevance.raised # "none"
       THEN [raised |-> relevance.raised]
       ELSE IdeaScore(config, idea.id, relevance.value,
                      _calculate_novelty(idea), _calculate_topicality(idea))

\* > in place of >=
passes_minimum_threshold_Strict(config, score) ==
    score.composite_score > config.scoring.minimum_score * 6000

passes_minimum_threshold(config, score) ==
    score.composite_score >= config.scoring.minimum_score * 6000

\* send_message up to its call of _generate_response (lines 135-174)
send_message_start(st, request) ==
    IF request.session_id # None
    THEN LET session == get_session(st, request.session_id)
         IN IF session = NoSession
            THEN [sessions |-> st.sessions, messages |-> st.messages,
                  raised |-> "ValueError"]
            ELSE TurnStart(st, session, request) @@ [raised |-> "none"]
    ELSE LET c == create_session(st, NoUser)
         IN TurnStart([sessions |-> c.sessions, messages |-> c.messages],
                      c.result, request) @@ [raised |-> "none"]

\* the locals of a send_message that waits for _generate_response or
\* _search_ideas (stage "waiting"), or that one of them ended with an
\* exception (stage "raised")
SuspendedTurn(start, request) ==
    [stage |-> "waiting",
     request |-> request,
     session_id |-> start.session_id,
     topics |-> start.topics,
     context_confidence |-> start.context_confidence,
     mnemosyne_available |-> start.mnemosyne_available,
     context |-> start.context,
     user_message_id |-> start.user_message_id]

\* the user message of the turn taken back when the turn fails
TurnFails_RollsBack(st, turn, exception) ==
    [sessions |-> [st.sessions EXCEPT ![turn.session_id].message_count = @ - 1],
     messages |-> [st.messages EXCEPT ![turn.session_id] =
                      SelectSeq(@, LAMBDA message : message.id # turn.user_message_id)],
     raised |-> exception,
     status |-> IF exception = "ValueError" THEN 400 ELSE 500]

\* the exceptions a collaborator may raise, as the route tells them apart:
\* a ValueError (or a subclass of it) and any other exception
Exceptions == {"ValueError", "Exception"}

\* _generate_response or _search_ideas raises: send_message has no handler,
\* the exception leaves it with the store as it is; the route answers 400
\* to a ValueError, which it catches first, and 500 to any other exception
TurnFails(st, turn, exception) ==
    [sessions |-> st.sessions,
     messages |-> st.messages,
     raised |-> exception,
     status |-> IF exception = "ValueError" THEN 400 ELSE 500]

(***************************************************************************)
(* The state machine: one action per request.                              *)
(***************************************************************************)
Store == [sessions |-> sessions, messages |-> messages]

\* the session identifiers a request may carry: those of the store and one more
SessionIds == 1..(Cardinality(DOMAIN sessions) + 1)

\* the requests served so far that changed the store
Ops ==
    Cardinality(DOMAIN sessions)
    + SumOver([s \in DOMAIN sessions |->
                 sessions[s].updated_at + sessions[s].ideas_generated],
              DOMAIN sessions)
    + Cardinality(inflight)

Init ==
    /\ sessions = <<>>
    /\ messages = <<>>
    /\ turns = <<>>
    /\ closed = {}
    /\ last = [op |-> "init"]
    /\ mnemosyne = "none"
    /\ scoring = NoResult
    /\ extraction = NoResult
    /\ inflight = {}

\* POST /chat/sessions
CreateSession(user_id) ==
    /\ Ops < MaxOps
    /\ LET r == create_session(Store, user_id)
       IN /\ sessions' = r.sessions
          /\ messages' = r.messages
          /\ turns' = [s \in DOMAIN r.sessions |->
                         IF s \in DOMAIN turns THEN turns[s] ELSE 0]
          /\ last' = [op |-> "create_session", user_id |-> user_id,
                      status |-> 201, result |-> r.result]
    /\ UNCHANGED <<closed, mnemosyne, scoring, extraction, inflight>>

\* ChatService.get_session, as a caller of the service sees it
GetSession(session_id) ==
    /\ last' = [op |-> "get_session", session_id |-> session_id,
                result |-> get_session(Store, session_id)]
    /\ UNCHANGED <<sessions, messages, turns, closed, mnemosyne, scoring, extraction, inflight>>

\* GET /chat/sessions
ListSessions(user_id, active_only) ==
    /\ last' = [op |-> "list_sessions", user_id |-> user_id,
                active_only |-> active_only, status |-> 200,
                result |-> list_sessions(Store, user_id, active_only)]
    /\ UNCHANGED <<sessions, messages, turns, closed, mnemosyne, scoring, extraction, inflight>>

\* GET /chat/sessions/{session_id}
GetSessionHistory(session_id) ==
    /\ LET history == get_session_history(Store, session_id)
       IN last' = [op |-> "get_session_history", session_id |-> session_id,
                   status |-> IF history = NoResult THEN 404 ELSE 200,
                   result |-> history]
    /\ UNCHANGED <<sessions, messages, turns, closed, mnemosyne, scoring, extraction, inflight>>

\* POST /chat
SendMessage(request) ==
    /\ request.session_id = None => Ops + 1 < MaxOps
    /\ request.session_id \in DOMAIN sessions => Ops < MaxOps
    /\ LET r == send_message(Store, request)
       IN /\ sessions' = r.sessions
          /\ messages' = r.messages
          /\ turns' = [s \in DOMAIN r.sessions |->
                         (IF s \in DOMAIN turns THEN turns[s] ELSE 0)
                         + (IF r.raised = "none" /\ s = r.response.session_id
                            THEN 1 ELSE 0)]
          /\ last' = [op |-> "send_message", request |-> request,
                      status |-> IF r.raised = "ValueError" THEN 400 ELSE 200,
                      raised |-> r.raised, context |-> r.context,
                      response |-> r.response]
    /\ UNCHANGED <<closed, mnemosyne, scoring, extraction, inflight>>

\* POST /chat/feedback
SubmitFeedback(feedback) ==
    /\ (feedback.feedback_type # "flag" /\ feedback.session_id \in DOMAIN sessions)
          => Ops < MaxOps
    /\ LET r == submit_feedback(Store, feedback)
       IN /\ sessions' = r.sessions
          /\ messages' = r.messages
          /\ last' = [op |-> "submit_feedback", feedback |-> feedback,
                      status |-> IF r.response.success THEN 200 ELSE 400,
                      response |-> r.response]
    /\ UNCHANGED <<turns, closed, mnemosyne, scoring, extraction, inflight>>

\* DELETE /chat/sessions/{session_id}
CloseSession(session_id) ==
    /\ session_id \in DOMAIN sessions => Ops < MaxOps
    /\ LET r == close_session(Store, session_id)
       IN /\ sessions' = r.sessions
          /\ messages' = r.messages
          /\ closed' = IF r.status = 204 THEN closed \cup {session_id} ELSE closed
          /\ last' = [op |-> "close_session", session_id |-> session_id,
                      status |-> r.status]
    /\ UNCHANGED <<turns, mnemosyne, scoring, extraction, inflight>>

\* the requests of the model: with and without topics to find, explicit
\* topics, a context window shorter than the history, idea search
RequestBodies ==
    {[message |-> "hello", topics |-> <<>>,
      context_window |-> 10, include_ideas |-> FALSE],
     [message |-> "Main Treasury", topics |-> <<>>,
      context_window |-> 2, include_ideas |-> TRUE],
     [message |-> "Main Treasury", topics |-> <<"treasury", "ai">>,
      context_window |-> 10, include_ideas |-> TRUE]}

Requests ==
    {[session_id |-> s, message |-> b.message, topics |-> b.topics,
      context_window |-> b.context_window, include_ideas |-> b.include_ideas] :
        s \in SessionIds \cup {None}, b \in RequestBodies}

Feedbacks ==
    [session_id : SessionIds, idea_id : {1}, feedback_type : FeedbackTypes]

Next ==
    \/ \E u \in Users : CreateSession(u)
    \/ \E s \in SessionIds : GetSession(s)
    \/ \E u \in Users, a \in BOOLEAN : ListSessions(u, a)
    \/ \E s \in SessionIds : GetSessionHistory(s)
    \/ \E request \in Requests : SendMessage(request)
    \/ \E feedback \in Feedbacks : SubmitFeedback(feedback)
    \/ \E s \in SessionIds : CloseSession(s)

Spec == Init /\ [][Next]_vars

(***************************************************************************)
(* The scoring service: a configuration and an idea, scored, and the score *)
(* put to the threshold.                                                   *)
(***************************************************************************)
PrimaryTopics ==
    {<<>>,
     <<TopicConfig("finance", <<"liquidity", "treasury">>, 90)>>,
     <<TopicConfig("finance", <<"liquidity", "treasury">>, 90),
       TopicConfig("empty", <<>>, 100)>>,
     <<TopicConfig("tokens", <<"tokenized">>, 150),
       TopicConfig("finance", <<"liquidity", "treasury">>, 90)>>,
     <<TopicConfig("tokens", <<"tokenized">>, 50),
       TopicConfig("finance", <<"liquidity", "treasury">>, 90)>>}

SecondaryTopics ==
    {<<>>,
     <<TopicConfig("empty", <<>>, 100)>>,
     <<TopicConfig("ai", <<"AI", "technology", "business">>, 60)>>}

ExcludeTopics == {<<>>, <<"Spam">>}

\* the defaults of ScoringConfig; relevance alone with the score of one idea
\* as the minimum; a negative novelty weight, which ScoringConfig accepts
ScoringConfigs ==
    {ScoringConfig(40, 30, 30, 65),
     ScoringConfig(0, 0, 100, 63),
     ScoringConfig(-50, 0, 100, 20)}

Configs ==
    {AletheiaConfig(p, s, e, c) :
        p \in PrimaryTopics, s \in SecondaryTopics,
        e \in ExcludeTopics, c \in ScoringConfigs}

Ideas ==
    {IdeaModel(1, "Notes", "treasury and liquidity management"),
     IdeaModel(2, "AI spam", "business technology"),
     IdeaModel(3, "hello", "Treasury treasury"),
     IdeaModel(4, "Tokenized treasury", "hello"),
     IdeaModel(5, "hello", "hello")}

InitS ==
    /\ sessions = <<>>
    /\ messages = <<>>
    /\ turns = <<>>
    /\ closed = {}
    /\ last = [op |-> "init"]
    /\ mnemosyne = "none"
    /\ \E config \in Configs, idea \in Ideas :
           scoring = [stage |-> "configured", config |-> config, idea |-> idea,
                      score |-> NoResult, passes |-> FALSE]
    /\ extraction = NoResult
    /\ inflight = {}

\* score = await scoring_service.score_idea(idea)
ScoreIdea ==
    /\ scoring.stage = "configured"
    /\ LET score == score_idea(scoring.config, scoring.idea)
       IN scoring' = [scoring EXCEPT
                         !.stage = IF score.raised = "none" THEN "scored" ELSE "failed",
                         !.score = score]
    /\ UNCHANGED <<sessions, messages, turns, closed, last, mnemosyne, extraction, inflight>>

\* scoring_service.passes_minimum_threshold(score)
PassesMinimumThreshold ==
    /\ scoring.stage = "scored"
    /\ scoring' = [scoring EXCEPT
                      !.stage = "checked",
                      !.passes = passes_minimum_threshold(scoring.config, scoring.score)]
    /\ UNCHANGED <<sessions, messages, turns, closed, last, mnemosyne, extraction, inflight>>

NextS ==
    \/ ScoreIdea
    \/ PassesMinimumThreshold

SpecScoring == InitS /\ [][NextS]_vars

(***************************************************************************)
(* The service with turns that wait for the model: a send_message gives up *)
(* control at its call of _generate_response (and of _search_ideas), other *)
(* requests are served meanwhile, and the call returns or raises.          *)
(***************************************************************************)
\* the requests of turns that wait: without and with idea search
SuspendingBodies == {b \in RequestBodies : b.topics = <<>>}

SuspendingRequests == {request \in Requests :
                          \E b \in SuspendingBodies :
                              /\ request.message = b.message
                              /\ request.topics = b.topics
                              /\ request.context_window = b.context_window
                              /\ request.include_ideas = b.include_ideas}

\* POST /chat/message up to the call of the model
BeginTurn(request) ==
    /\ request.session_id = None => Ops + 1 < MaxOps
    /\ request.session_id \in DOMAIN sessions => Ops < MaxOps
    /\ LET r == send_message_start(Store, request)
       IN IF r.raised = "ValueError"
          THEN /\ last' = [op |-> "send_message", request |-> request,
                           status |-> 400, raised |-> r.raised]
               /\ UNCHANGED <<sessions, messages, turns, inflight>>
          ELSE /\ sessions' = r.sessions
               /\ messages' = r.messages
               /\ turns' = [s \in DOMAIN r.sessions |->
                              IF s \in DOMAIN turns THEN turns[s] ELSE 0]
               /\ inflight' = inflight \cup {SuspendedTurn(r, request)}
               /\ last' = [op |-> "turn_suspended", status |-> 0,
                           turn |-> SuspendedTurn(r, request)]
    /\ UNCHANGED <<closed, mnemosyne, scoring, extraction>>

\* the model has replied: the rest of send_message
CompleteTurn(turn) ==
    /\ turn \in inflight
    /\ turn.stage = "waiting"
    /\ LET r == TurnFinish(Store, turn, turn.request)
       IN /\ sessions' = r.sessions
          /\ messages' = r.messages
          /\ turns' = [turns EXCEPT ![turn.session_id] = @ + 1]
          /\ inflight' = inflight \ {turn}
          /\ last' = [op |-> "turn_completed", status |-> 200, turn |-> turn,
                      response |-> r.response]
    /\ UNCHANGED <<closed, mnemosyne, scoring, extraction>>

\* the call of the model, or the idea search of a turn that asks for ideas,
\* raises
FailTurn(turn, at, exception) ==
    /\ turn \in inflight
    /\ turn.stage = "waiting"
    /\ at = "_search_ideas" => turn.request.include_ideas
    /\ LET r == TurnFails(Store, turn, exception)
       IN /\ sessions' = r.sessions
          /\ messages' = r.messages
          /\ inflight' = (inflight \ {turn}) \cup {[turn EXCEPT !.stage = "raised"]}
          /\ last' = [op |-> "turn_failed", status |-> r.status, turn |-> turn,
                      at |-> at, raised |-> r.raised]
    /\ UNCHANGED <<turns, closed, mnemosyne, scoring, extraction>>

\* with the requests that change the store; those that only read it
\* change nothing a turn depends on and are checked under Spec
NextC ==
    \/ \E u \in Users : CreateSession(u)
    \/ \E request \in SuspendingRequests : BeginTurn(request)
    \/ \E turn \in inflight : CompleteTurn(turn)
    \/ \E turn \in inflight, at \in {"_generate_response", "_search_ideas"},
          exception \in Exceptions :
           FailTurn(turn, at, exception)
    \/ \E feedback \in Feedbacks : SubmitFeedback(feedback)
    \/ \E s \in SessionIds : CloseSession(s)

SpecC == Init /\ [][NextC]_vars

(***************************************************************************)
(* _extract_topics on its own: a message and a list of explicit topics.    *)
(***************************************************************************)
TopicMessages ==
    {"hello", "Main Treasury", "AI", "technology", "business technology",
     "treasury and liquidity management", "Tokenized treasury", "AI spam",
     "Treasury treasury", "Notes"}

TopicLists ==
    {<<>>, <<"treasury", "ai">>, <<"ai", "ai">>, <<"AI">>, <<"treasury">>,
     <<"liquidity", "treasury", "liquidity">>, <<"Notes">>}

InitT ==
    /\ sessions = <<>>
    /\ messages = <<>>
    /\ turns = <<>>
    /\ closed = {}
    /\ last = [op |-> "init"]
    /\ mnemosyne = "none"
    /\ scoring = NoResult
    /\ inflight = {}
    /\ \E message \in TopicMessages, explicit_topics \in TopicLists :
           extraction = [stage |-> "asked", message |-> message,
                         explicit_topics |-> explicit_topics, topics |-> <<>>]

\* topics = self._extract_topics(request.message, request.topics)
ExtractTopics ==
    /\ extraction.stage = "asked"
    /\ extraction' = [extraction EXCEPT
                         !.stage = "extracted",
                         !.topics = _extract_topics(extraction.message,
                                                    extraction.explicit_topics)]
    /\ UNCHANGED <<sessions, messages, turns, closed, last, mnemosyne, scoring, inflight>>

NextT == ExtractTopics

SpecTopics == InitT /\ [][NextT]_vars

(***************************************************************************)
(* Properties.                                                             *)
(***************************************************************************)
IsPrefix(a, b) ==
    /\ Len(a) <= Len(b)
    /\ \A i \in 1..Len(a) : a[i] = b[i]

Counters(session) ==
    <<session.ideas_generated, session.ideas_accepted, session.ideas_rejected>>

\* C1: after N send_message calls on a session completed one after another,
\* the session holds exactly 2N messages alternating user, assistant, ...
\* from a user message, and its message_count is 2N.
C1_TwoMessagesPerTurn ==
    \A s \in DOMAIN sessions :
        /\ Len(messages[s]) = 2 * turns[s]
        /\ sessions[s].message_count = 2 * turns[s]
        /\ \A i \in 1..Len(messages[s]) :
               messages[s][i].role = IF i % 2 = 1 THEN "user" ELSE "assistant"

C1_Witness ==
    \E s \in DOMAIN sessions : turns[s] = 3 /\ Len(messages[s]) = 6

\* C2: send_message with a session identifier that is not in the store fails
\* with ValueError (400 at the route) and changes nothing in the store.
C2_UnknownSessionRejected ==
    [][(/\ last'.op = "send_message"
        /\ last'.request.session_id # None
        /\ last'.request.session_id \notin DOMAIN sessions)
       => (/\ last'.raised = "ValueError"
           /\ last'.status = 400
           /\ sessions' = sessions
           /\ messages' = messages)]_vars

C2_Witness ==
    /\ last.op = "send_message"
    /\ last.status = 400
    /\ \E s \in DOMAIN sessions :
           sessions[s].message_count > 0 /\ sessions[s].topics # <<>>

\* C3: send_message without a session identifier makes exactly one new
\* session, whose identifier was not issued before, and returns it;
\* send_message with the identifier of a session of the store makes no
\* session and returns that identifier.
C3_NewSessionThenReuse ==
    [][last'.op = "send_message"
       => (/\ last'.request.session_id = None
              => (/\ last'.status = 200
                  /\ last'.response.session_id \notin DOMAIN sessions
                  /\ DOMAIN sessions' =
                         DOMAIN sessions \cup {last'.response.session_id}
                  /\ Cardinality(DOMAIN sessions') =
                         Cardinality(DOMAIN sessions) + 1)
           /\ last'.request.session_id \in DOMAIN sessions
              => (/\ last'.status = 200
                  /\ last'.response.session_id = last'.request.session_id
                  /\ DOMAIN sessions' = DOMAIN sessions))]_vars

C3_Witness ==
    /\ last.op = "send_message"
    /\ last.status = 200
    /\ last.request.session_id = 2
    /\ last.response.session_id = 2
    /\ turns[2] = 2
    /\ sessions[2].user_id = NoUser
    /\ Cardinality(DOMAIN sessions) = 2

\* C4: feedback of kind accept on a session of the store adds 1 to its
\* ideas_accepted and ideas_generated and leaves ideas_rejected; of kind
\* reject it adds 1 to ideas_rejected and ideas_generated and leaves
\* ideas_accepted; both report success.
C4_AcceptRejectCounted ==
    [][(/\ last'.op = "submit_feedback"
        /\ last'.feedback.session_id \in DOMAIN sessions
        /\ last'.feedback.feedback_type \in {"accept", "reject"})
       => LET before == sessions[last'.feedback.session_id]
              after == sessions'[last'.feedback.session_id]
              accept == last'.feedback.feedback_type = "accept"
          IN /\ last'.response.success
             /\ after.ideas_generated = before.ideas_generated + 1
             /\ after.ideas_accepted =
                    before.ideas_accepted + (IF accept THEN 1 ELSE 0)
             /\ after.ideas_rejected =
                    before.ideas_rejected + (IF accept THEN 0 ELSE 1)]_vars

C4_Witness ==
    /\ last.op = "submit_feedback"
    /\ last.feedback.feedback_type = "reject"
    /\ last.response.success
    /\ \E s \in DOMAIN sessions :
           /\ s = last.feedback.session_id
           /\ Counters(sessions[s]) = <<2, 1, 1>>

\* C5: feedback of kind flag on a session of the store reports success and
\* leaves ideas_generated, ideas_accepted and ideas_rejected as they were.
C5_FlagNotCounted ==
    [][(/\ last'.op = "submit_feedback"
        /\ last'.feedback.session_id \in DOMAIN sessions
        /\ last'.feedback.feedback_type = "flag")
       => (/\ last'.response.success
           /\ Counters(sessions'[last'.feedback.session_id]) =
                  Counters(sessions[last'.feedback.session_id]))]_vars

C5_Witness ==
    /\ last.op = "submit_feedback"
    /\ last.feedback.feedback_type = "flag"
    /\ last.response.success
    /\ last.feedback.session_id \in DOMAIN sessions
    /\ Counters(sessions[last.feedback.session_id]) = <<1, 1, 0>>

\* C6: feedback of any kind on a session identifier that is not in the store
\* returns success = false with a "not found" message and changes nothing.
C6_FeedbackUnknownSession ==
    [][(/\ last'.op = "submit_feedback"
        /\ last'.feedback.session_id \notin DOMAIN sessions)
       => (/\ last'.response.success = FALSE
           /\ last'.response.message = "not found"
           /\ last'.status = 400
           /\ sessions' = sessions
           /\ messages' = messages)]_vars

C6_Witness ==
    /\ last.op = "submit_feedback"
    /\ last.feedback.feedback_type = "accept"
    /\ last.response.success = FALSE
    /\ \E s \in DOMAIN sessions :
           sessions[s].ideas_generated > 0 /\ Len(messages[s]) > 0

\* C7: a session that has been closed is in no active_only listing from then
\* on, and every session of an active_only listing has is_active = true.
C7_ClosedNeverListedActive ==
    /\ \A u \in Users :
           LET listing == list_sessions(Store, u, TRUE).sessions
           IN \A i \in 1..Len(listing) :
                  listing[i].is_active /\ listing[i].id \notin closed
    /\ (last.op = "list_sessions" /\ last.active_only)
          => \A i \in 1..Len(last.result.sessions) :
                 /\ last.result.sessions[i].is_active
                 /\ last.result.sessions[i].id \notin closed

C7_Witness ==
    /\ last.op = "list_sessions"
    /\ last.active_only
    /\ last.result.total = 1
    /\ \E s \in closed : turns[s] > 0

\* C8: closing a session of the store sets is_active to false and changes
\* nothing but the update timestamp: no message is appended, message_count,
\* topics, counters and confidence stay, get_session still returns the
\* session and its history is still served, with is_active = false.
C8_CloseOnlyDeactivates ==
    [][(/\ last'.op = "close_session"
        /\ last'.session_id \in DOMAIN sessions)
       => LET s == last'.session_id
          IN /\ last'.status = 204
             /\ sessions' = [sessions EXCEPT
                               ![s].is_active = FALSE,
                               ![s].updated_at = sessions'[s].updated_at]
             /\ messages' = messages
             /\ get_session(Store', s) # NoSession
             /\ get_session_history(Store', s) # NoResult
             /\ get_session_history(Store', s).session.is_active = FALSE
             /\ get_session_history(Store', s).messages = messages[s]]_vars

C8_Witness ==
    /\ last.op = "close_session"
    /\ last.status = 204
    /\ sessions[last.session_id].message_count = 2
    /\ sessions[last.session_id].topics # <<>>
    /\ sessions[last.session_id].ideas_accepted = 1

\* C9: get_session right after create_session, on the identifier returned,
\* gives a session with that identifier, message_count = 0, is_active = true,
\* no topic, ideas_generated = 0 and an empty message list; get_session on an
\* identifier never issued gives no session.
C9_CreateThenGet ==
    [][/\ (/\ last.op = "create_session"
           /\ last'.op = "get_session"
           /\ last'.session_id = last.result.id)
          => (/\ last'.result # NoSession
              /\ last'.result.id = last.result.id
              /\ last'.result.message_count = 0
              /\ last'.result.is_active = TRUE
              /\ last'.result.topics = <<>>
              /\ last'.result.ideas_generated = 0
              /\ messages'[last.result.id] = <<>>)
       /\ (/\ last'.op = "get_session"
           /\ last'.session_id \notin DOMAIN sessions')
          => last'.result = NoSession]_vars

C9_Witness ==
    /\ last.op = "get_session"
    /\ last.session_id = 2
    /\ last.result # NoSession
    /\ last.result.message_count = 0
    /\ Len(messages[2]) = 0
    /\ Len(messages[1]) > 0

\* C10: a session stays in the store: in every step, every session of the
\* store is still returned by get_session, and its history is still served
\* and keeps every message it had, also once the session is closed.
C10_SessionsNeverRemoved ==
    [][/\ \A s \in DOMAIN sessions :
              /\ get_session(Store', s) # NoSession
              /\ get_session_history(Store', s) # NoResult
              /\ IsPrefix(messages[s], get_session_history(Store', s).messages)
       /\ (/\ last'.op = "get_session_history"
           /\ last'.session_id \in DOMAIN sessions)
          => (/\ last'.status = 200
              /\ last'.result.messages = messages[last'.session_id])]_vars

C10_Witness ==
    /\ last.op = "get_session_history"
    /\ last.status = 200
    /\ last.session_id \in closed
    /\ Len(last.result.messages) = 4

\* C11: a send_message, submit_feedback or close addressed to a session
\* leaves every other session as it was: its messages, message_count,
\* topics, counters, confidence and active flag.
C11_OtherSessionsUntouched ==
    [][\A a \in DOMAIN sessions' :
          (\/ last'.op = "send_message" /\ last'.status = 200
                 /\ last'.response.session_id = a
           \/ last'.op = "submit_feedback" /\ last'.feedback.session_id = a
           \/ last'.op = "close_session" /\ last'.session_id = a)
          => \A b \in DOMAIN sessions \ {a} :
                 /\ sessions'[b] = sessions[b]
                 /\ messages'[b] = messages[b]]_vars

C11_Witness ==
    /\ last.op = "send_message"
    /\ last.status = 200
    /\ last.response.session_id = 1
    /\ Cardinality(DOMAIN sessions) = 2
    /\ Len(messages[1]) = 2
    /\ Len(messages[2]) = 2
    /\ sessions[1].topics # sessions[2].topics

\* C12: list_sessions keeps the sessions of the user asked for (all without
\* a user), then the active ones if active_only, in the order of the store;
\* total is their number, active_count the number of active ones among them,
\* active_count <= total, and active_count = total when active_only.
C12_ListCountsFiltered ==
    /\ \A u \in Users, a \in BOOLEAN :
           LET r == list_sessions(Store, u, a)
               kept == {s \in DOMAIN sessions :
                           /\ (u # NoUser => sessions[s].user_id = u)
                           /\ (a => sessions[s].is_active)}
           IN /\ {r.sessions[i].id : i \in 1..Len(r.sessions)} = kept
              /\ \A i \in 1..Len(r.sessions) :
                     r.sessions[i] = sessions[r.sessions[i].id]
              /\ r.total = Cardinality(kept)
              /\ r.total = Len(r.sessions)
              /\ r.active_count =
                     Cardinality({s \in kept : sessions[s].is_active})
              /\ r.active_count <= r.total
              /\ (a => r.active_count = r.total)
    /\ last.op = "list_sessions"
          => last.result = list_sessions(Store, last.user_id, last.active_only)

C12_Witness ==
    /\ last.op = "list_sessions"
    /\ last.user_id = "user1"
    /\ last.active_only = FALSE
    /\ last.result.total = 2
    /\ last.result.active_count = 1
    /\ Cardinality(DOMAIN sessions) = 3

\* C18 as claimed: feedback on a session of the store about an idea
\* identifier the service does not know does not report success and leaves
\* the idea counters of the session as they were.
C18_UnknownIdeaRefused ==
    [][(/\ last'.op = "submit_feedback"
        /\ last'.feedback.session_id \in DOMAIN sessions
        /\ last'.feedback.idea_id \notin ideas_cache)
       => /\ ~last'.response.success
          /\ Counters(sessions'[last'.feedback.session_id])
                 = Counters(sessions[last'.feedback.session_id])]_vars

\* C18 as amended: the idea identifier of a feedback is not looked up.
\* Feedback on a session of the store about an idea the service does not
\* know is answered with success (status 200) and the confidence of the
\* session, and ideas_generated grows by 1 for accept and reject, by 0 for
\* flag; only an unknown session is refused.
C18_UnknownIdeaAccepted ==
    [][(/\ last'.op = "submit_feedback"
        /\ last'.feedback.idea_id \notin ideas_cache)
       => LET s == last'.feedback.session_id
          IN IF s \in DOMAIN sessions
             THEN /\ last'.response.success
                  /\ last'.status = 200
                  /\ last'.response.updated_context_confidence
                         = sessions[s].context_confidence
                  /\ sessions'[s].ideas_generated = sessions[s].ideas_generated
                         + (IF last'.feedback.feedback_type = "flag" THEN 0 ELSE 1)
             ELSE /\ ~last'.response.success
                  /\ last'.status = 400]_vars

C18_Witness ==
    /\ last.op = "submit_feedback"
    /\ last.feedback.idea_id \notin ideas_cache
    /\ last.feedback.session_id \in DOMAIN sessions
    /\ last.feedback.feedback_type = "accept"
    /\ last.status = 200
    /\ sessions[last.feedback.session_id].ideas_accepted = 1
    /\ sessions[last.feedback.session_id].message_count = 2

\* C20: the user message a turn appends carries the confidence the session
\* had before the turn (that of a new session for a session the turn
\* makes); on a session with an earlier turn this is the confidence that
\* turn resolved, which its assistant message carries.
C20_UserMessageSnapshot ==
    [][(last'.op = "send_message" /\ last'.status = 200)
       => LET s == last'.response.session_id
              n == Len(messages'[s])
              user_message == messages'[s][n - 1]
          IN /\ user_message.role = "user"
             /\ user_message.content = last'.request.message
             /\ user_message.context_confidence =
                    (IF s \in DOMAIN sessions
                     THEN sessions[s].context_confidence
                     ELSE DefaultContextConfidence)
             /\ (s \in DOMAIN sessions /\ turns[s] > 0)
                    => user_message.context_confidence =
                           messages[s][Len(messages[s])].context_confidence]_vars

C20_Witness ==
    /\ last.op = "send_message"
    /\ last.status = 200
    /\ last.response.context_confidence = 80
    /\ Len(messages[last.response.session_id]) = 4
    /\ messages[last.response.session_id][1].context_confidence
           = DefaultContextConfidence
    /\ messages[last.response.session_id][2].context_confidence = 80
    /\ messages[last.response.session_id][3].context_confidence = 80

Scored == scoring.stage \in {"scored", "checked"}

Topics(config) == Range(config.primary_topics) \cup Range(config.secondary_topics)

\* the largest score of a topic of the group with a keyword in the text, 0
\* without such a topic
BestOf(topics, hay) ==
    LET hit == {i \in 1..Len(topics) :
                   \E k \in 1..Len(topics[i].keywords) :
                       Contains(hay, lower(Chars(topics[i].keywords[k])))}
        share(i) ==
            Min((Cardinality({k \in 1..Len(topics[i].keywords) :
                                 Contains(hay, lower(Chars(topics[i].keywords[k])))})
                 * 6) \div Len(topics[i].keywords), 6)
        of(i) == share(i) * topics[i].weight
    IN IF hit = {} THEN 0
       ELSE CHOOSE x \in {of(i) : i \in hit} : \A i \in hit : of(i) <= x

\* C13: an idea whose title or content holds an excluded keyword, whatever
\* the case of the letters, has relevance 0, whatever topics it matches.
C13_ExcludedScoresZero ==
    (/\ Scored
     /\ \E i \in 1..Len(scoring.config.exclude_topics) :
            LET excluded == lower(Chars(scoring.config.exclude_topics[i]))
            IN \/ Contains(lower(Chars(scoring.idea.title)), excluded)
               \/ Contains(lower(Chars(scoring.idea.content)), excluded))
    => scoring.score.relevance_score = 0

C13_Witness ==
    /\ Scored
    /\ scoring.idea.title = "AI spam"
    /\ scoring.config.exclude_topics = <<"Spam">>
    /\ \E i \in 1..Len(scoring.config.secondary_topics) :
           matches(scoring.config.secondary_topics[i], content_lower(scoring.idea)) = 3
    /\ scoring.score.relevance_score = 0

\* C14: without an excluded keyword in the text, relevance is
\* min(1, 0.7 * P + 0.3 * S), P and S the best topic score of the primary and
\* of the secondary topics, a keyword counted once however often it occurs;
\* a primary topic of weight 0.9 with 2 of 2 keywords and no secondary hit
\* gives 0.63.
C14_RelevanceFormula ==
    (Scored /\ ~IsExcluded(scoring.config, content_lower(scoring.idea)))
    => LET hay == content_lower(scoring.idea)
           P == BestOf(scoring.config.primary_topics, hay)
           S == BestOf(scoring.config.secondary_topics, hay)
       IN /\ scoring.score.relevance_score = Min(6000, 7 * P + 3 * S)
          /\ (/\ scoring.idea.title = "Notes"
              /\ scoring.config.primary_topics
                     = <<TopicConfig("finance", <<"liquidity", "treasury">>, 90)>>)
                 => scoring.score.relevance_score = 3780

C14_Witness ==
    /\ Scored
    /\ scoring.idea.title = "Tokenized treasury"
    /\ Len(scoring.config.primary_topics) = 2
    /\ scoring.config.primary_topics[1].weight = 50
    /\ Len(scoring.config.secondary_topics) = 1
    /\ scoring.score.relevance_score = 2100

\* C15: with topic weights in [0,1] and scoring weights that are not
\* negative, the score of a topic is at most its weight, relevance is in
\* [0,1] and the composite score in [0, sum of the three weights].
C15_ScoresBounded ==
    (/\ Scored
     /\ \A topic \in Topics(scoring.config) : topic.weight \in 0..100
     /\ scoring.config.scoring.novelty_weight >= 0
     /\ scoring.config.scoring.topicality_weight >= 0
     /\ scoring.config.scoring.relevance_weight >= 0)
    => /\ \A topic \in Topics(scoring.config) :
              topic_score(topic, content_lower(scoring.idea)).score <= 6 * topic.weight
       /\ scoring.score.relevance_score \in 0..6000
       /\ scoring.score.composite_score >= 0
       /\ scoring.score.composite_score <=
              6000 * (scoring.config.scoring.novelty_weight
                      + scoring.config.scoring.topicality_weight
                      + scoring.config.scoring.relevance_weight)

C15_Witness ==
    /\ Scored
    /\ scoring.idea.title = "Notes"
    /\ scoring.config.scoring = ScoringConfig(40, 30, 30, 65)
    /\ \A topic \in Topics(scoring.config) : topic.weight \in 0..100
    /\ scoring.score.relevance_score = 3780
    /\ scoring.score.composite_score = 431400

\* component scores from 0 to 1
Levels == {0, 1200, 3780, 4200, 4800, 6000}

\* every score with components at least those of the score of the state passes
HigherScoresPass ==
    \A relevance, novelty, topicality \in Levels :
        (/\ relevance >= scoring.score.relevance_score
         /\ novelty >= scoring.score.novelty_score
         /\ topicality >= scoring.score.topicality_score)
        => passes_minimum_threshold(scoring.config,
               IdeaScore(scoring.config, scoring.idea.id,
                         relevance, novelty, topicality))

\* C16 as claimed: with the weights and the minimum score of any
\* configuration, when a score passes the threshold every score whose three
\* components are at least as large passes too; and a score passes exactly
\* when its composite is at least the minimum score.
C16_ThresholdMonotonic ==
    scoring.stage = "checked"
    => /\ scoring.passes
              = (scoring.score.composite_score
                     >= scoring.config.scoring.minimum_score * 6000)
       /\ scoring.passes => HigherScoresPass

\* C16 as amended: the same for configurations whose three scoring weights
\* are not negative; passing is composite >= minimum score, equality
\* included, for every configuration.
C16_ThresholdMonotonicNonNegative ==
    scoring.stage = "checked"
    => /\ scoring.passes
              = (scoring.score.composite_score
                     >= scoring.config.scoring.minimum_score * 6000)
       /\ (/\ scoring.passes
           /\ scoring.config.scoring.novelty_weight >= 0
           /\ scoring.config.scoring.topicality_weight >= 0
           /\ scoring.config.scoring.relevance_weight >= 0)
          => HigherScoresPass

C16_Witness ==
    /\ scoring.stage = "checked"
    /\ scoring.passes
    /\ scoring.config.scoring.relevance_weight = 100
    /\ scoring.config.scoring.novelty_weight = 0
    /\ scoring.score.relevance_score = 3780
    /\ scoring.score.composite_score = scoring.config.scoring.minimum_score * 6000

\* the configuration without its topics that have no keyword
WithoutEmptyTopics(config) ==
    [config EXCEPT
        !.primary_topics = SelectSeq(@, LAMBDA topic : topic.keywords # <<>>),
        !.secondary_topics = SelectSeq(@, LAMBDA topic : topic.keywords # <<>>)]

\* C19: a topic without keywords makes no division by zero: score_idea
\* returns a score for every idea and configuration, the topic's score is 0
\* and the relevance is that of the configuration without such topics.
C19_EmptyTopicContributesZero ==
    /\ scoring.stage # "failed"
    /\ Scored =>
          /\ scoring.score.raised = "none"
          /\ \A topic \in Topics(scoring.config) :
                 topic.keywords = <<>>
                 => topic_score(topic, content_lower(scoring.idea))
                        = [raised |-> "none", counted |-> FALSE, score |-> 0]
          /\ scoring.score.relevance_score
                 = _calculate_relevance(WithoutEmptyTopics(scoring.config),
                                        scoring.idea).value

C19_Witness ==
    /\ Scored
    /\ scoring.idea.title = "hello"
    /\ scoring.idea.content = "Treasury treasury"
    /\ Len(scoring.config.primary_topics) = 2
    /\ scoring.config.primary_topics[2].keywords = <<>>
    /\ scoring.config.secondary_topics = <<TopicConfig("empty", <<>>, 100)>>
    /\ scoring.score.relevance_score = 1890

\* C21: after a completed turn the confidence of the session, the confidence
\* of the response and the snapshot of the assistant message of the turn
\* are one value in [0,1], and the message identifier of the response is
\* that of the assistant message, the last message of the history.
C21_TurnConfidenceAgrees ==
    [][(last'.op = "send_message" /\ last'.status = 200)
       => LET s == last'.response.session_id
              assistant_message == messages'[s][Len(messages'[s])]
          IN /\ assistant_message.role = "assistant"
             /\ assistant_message.id = last'.response.message_id
             /\ \A i \in 1..(Len(messages'[s]) - 1) :
                    messages'[s][i].id # last'.response.message_id
             /\ assistant_message.context_confidence
                    = last'.response.context_confidence
             /\ sessions'[s].context_confidence = last'.response.context_confidence
             /\ last'.response.context_confidence \in 0..100
             /\ LET history == get_session_history(
                                   [sessions |-> sessions', messages |-> messages'], s)
                IN history.messages[Len(history.messages)].id
                       = last'.response.message_id]_vars

C21_Witness ==
    /\ last.op = "send_message"
    /\ last.status = 200
    /\ ~last.response.mnemosyne_available
    /\ last.response.context_confidence = 80
    /\ sessions[last.response.session_id].context_confidence = 80
    /\ Len(messages[last.response.session_id]) = 4
    /\ messages[last.response.session_id][1].context_confidence
           = DefaultContextConfidence
    /\ messages[last.response.session_id][4].context_confidence = 80

NoDuplicates(seq) == \A i, j \in 1..Len(seq) : seq[i] = seq[j] => i = j

\* the place a topic first has in a list
FirstIndex(seq, x) == CHOOSE i \in 1..Len(seq) : seq[i] = x /\ \A j \in 1..(i - 1) : seq[j] # x

\* C22: the topics of a session hold no topic twice; no step removes or
\* reorders one; a turn adds the topics it discusses that the session has
\* not, in the order they first occur in the turn, and nothing when the
\* session has them all.
C22_TopicsFirstSeenOrder ==
    [][\A s \in DOMAIN sessions' :
          LET before == IF s \in DOMAIN sessions THEN sessions[s].topics ELSE <<>>
              after == sessions'[s].topics
              discussed == IF /\ last'.op = "send_message"
                              /\ last'.status = 200
                              /\ last'.response.session_id = s
                           THEN last'.response.topics_discussed ELSE <<>>
          IN /\ NoDuplicates(after)
             /\ IsPrefix(before, after)
             /\ Range(after) = Range(before) \cup Range(discussed)
             /\ \A i, j \in (Len(before) + 1)..Len(after) :
                    i < j => FirstIndex(discussed, after[i])
                                 < FirstIndex(discussed, after[j])
             /\ Range(discussed) \subseteq Range(before) => after = before]_vars

C22_Witness ==
    /\ last.op = "send_message"
    /\ last.status = 200
    /\ last.response.topics_discussed = <<"treasury", "ai", "AI">>
    /\ sessions[last.response.session_id].topics = <<"AI", "treasury", "ai">>
    /\ sessions[last.response.session_id].message_count = 6

\* C23: the topics a turn reports are the explicit topics and the keywords
\* of the vocabulary found in the message, whatever the case of the
\* letters: each of them, nothing else, and none twice, also when the
\* explicit topics repeat a topic or name a keyword.
C23_TopicsAreUnion ==
    extraction.stage = "extracted"
    => LET found == {keywords[k] : k \in
                        {k \in 1..Len(keywords) :
                            Contains(lower(Chars(extraction.message)),
                                     lower(Chars(keywords[k])))}}
       IN /\ Range(extraction.topics) = Range(extraction.explicit_topics) \cup found
          /\ NoDuplicates(extraction.topics)

\* C24: for a context window N >= 1 the context given to the model in a
\* turn is the N - 1 last messages stored before the user message of the
\* turn (all of them when there are fewer), in the order stored, without
\* that user message; the history keeps every message whatever N is.
C24_PriorContextWindow ==
    [][(/\ last'.op = "send_message"
        /\ last'.status = 200
        /\ last'.request.context_window >= 1)
       => LET s == last'.response.session_id
              N == last'.request.context_window
              before == IF s \in DOMAIN messages THEN messages[s] ELSE <<>>
              context == last'.context
              skipped == Len(before) - Len(context)
          IN /\ Len(context) <= N - 1
             /\ Len(context) = Min(N - 1, Len(before))
             /\ \A i \in 1..Len(context) : context[i] = before[skipped + i]
             /\ \A i \in 1..Len(context) :
                    context[i].id # messages'[s][Len(before) + 1].id
             /\ Len(messages'[s]) = Len(before) + 2
             /\ IsPrefix(before, messages'[s])]_vars

C24_Witness ==
    /\ last.op = "send_message"
    /\ last.status = 200
    /\ last.request.context_window = 2
    /\ Len(messages[last.response.session_id]) = 6
    /\ Len(last.context) = 1
    /\ last.context[1] = messages[last.response.session_id][4]

\* C25: the message list of a session is append-only: in every step of
\* every request the list before the step is a prefix of the list after it,
\* and a list only grows in a completed turn on its session.
C25_MessagesAppendOnly ==
    [][/\ DOMAIN messages \subseteq DOMAIN messages'
       /\ \A s \in DOMAIN messages :
              /\ IsPrefix(messages[s], messages'[s])
              /\ messages'[s] # messages[s]
                     => /\ last'.op = "send_message"
                        /\ last'.status = 200
                        /\ last'.response.session_id = s]_vars

C25_Witness ==
    /\ last.op = "get_session_history"
    /\ Cardinality(DOMAIN sessions) = 1
    /\ 1 \in closed
    /\ Len(messages[1]) = 4
    /\ last.result.messages = messages[1]
    /\ messages[1][1].id = <<1, 1>>
    /\ messages[1][4].id = <<1, 4>>

\* C29: no step sets is_active of a session from false to true; a turn on a
\* closed session succeeds, appends its two messages and leaves the session
\* closed, and feedback on a closed session is recorded.
C29_ActiveOnlyFalls ==
    [][/\ \A s \in DOMAIN sessions :
              ~sessions[s].is_active => ~sessions'[s].is_active
       /\ \A s \in DOMAIN sessions' \ DOMAIN sessions : sessions'[s].is_active
       /\ (/\ last'.op = "send_message"
           /\ last'.request.session_id \in DOMAIN sessions
           /\ ~sessions[last'.request.session_id].is_active)
          => LET s == last'.request.session_id
             IN /\ last'.status = 200
                /\ Len(messages'[s]) = Len(messages[s]) + 2
                /\ sessions'[s].message_count = sessions[s].message_count + 2
                /\ ~sessions'[s].is_active
       /\ (/\ last'.op = "submit_feedback"
           /\ last'.feedback.session_id \in DOMAIN sessions
           /\ ~sessions[last'.feedback.session_id].is_active)
          => /\ last'.response.success
             /\ ~sessions'[last'.feedback.session_id].is_active]_vars

C29_Witness ==
    /\ last.op = "send_message"
    /\ last.status = 200
    /\ last.response.session_id \in closed
    /\ ~sessions[last.response.session_id].is_active
    /\ Len(messages[last.response.session_id]) = 2
    /\ sessions[last.response.session_id].ideas_generated = 1

\* C30: for every session ideas_generated = ideas_accepted +
\* ideas_rejected, the three counters are not negative and never decrease,
\* and only feedback of kind accept or reject on the session changes them.
C30_IdeaCountersConsistent ==
    [][\A s \in DOMAIN sessions' :
          LET after == sessions'[s]
              before == IF s \in DOMAIN sessions THEN Counters(sessions[s])
                        ELSE <<0, 0, 0>>
          IN /\ after.ideas_generated = after.ideas_accepted + after.ideas_rejected
             /\ \A i \in 1..3 : Counters(after)[i] >= before[i] /\ before[i] >= 0
             /\ Counters(after) # before
                    => /\ last'.op = "submit_feedback"
                       /\ last'.feedback.session_id = s
                       /\ last'.feedback.feedback_type \in {"accept", "reject"}]_vars

C30_Witness ==
    /\ last.op = "close_session"
    /\ last.status = 204
    /\ Counters(sessions[last.session_id]) = <<2, 1, 1>>
    /\ sessions[last.session_id].message_count = 0

Pending(s, turns_begun) == {turn \in turns_begun : turn.session_id = s}

\* C26: between requests, and while turns wait for the model, the
\* message_count of every session is the length of its message list, and
\* the session map and the message map have the same keys.
C26_CountIsLength ==
    /\ DOMAIN sessions = DOMAIN messages
    /\ \A s \in DOMAIN sessions : sessions[s].message_count = Len(messages[s])

C26_Witness ==
    /\ \E turn \in inflight : turn.stage = "waiting" /\ turn.session_id = 1
    /\ Cardinality(Pending(1, inflight)) = 2
    /\ turns[1] = 1
    /\ sessions[1].message_count = 4
    /\ Len(messages[1]) = 4

\* C27: turns of one session that overlap lose no update: the messages
\* and the message_count of a session are two for each completed turn and
\* one for each turn that waits or has failed, so two overlapping turns
\* leave 4 messages more and the count 4 higher; a completed turn appends
\* its assistant message after its user message, which is still there.
C27_NoLostUpdate ==
    [][\A s \in DOMAIN sessions' :
          /\ Len(messages'[s]) = 2 * turns'[s] + Cardinality(Pending(s, inflight'))
          /\ sessions'[s].message_count
                 = 2 * turns'[s] + Cardinality(Pending(s, inflight'))
          /\ (last'.op = "turn_completed" /\ last'.turn.session_id = s)
             => LET n == Len(messages'[s])
                IN /\ n = Len(messages[s]) + 1
                   /\ IsPrefix(messages[s], messages'[s])
                   /\ sessions'[s].message_count = sessions[s].message_count + 1
                   /\ messages'[s][n].role = "assistant"
                   /\ messages'[s][n].id = last'.response.message_id
                   /\ \E i \in 1..(n - 1) :
                          /\ messages'[s][i].id = last'.turn.user_message_id
                          /\ messages'[s][i].role = "user"
                          /\ messages'[s][i].content = last'.turn.request.message]_vars

C27_Witness ==
    /\ last.op = "turn_completed"
    /\ DOMAIN sessions = {1}
    /\ inflight = {}
    /\ turns[1] = 2
    /\ sessions[1].message_count = 4
    /\ [i \in 1..4 |-> messages[1][i].role]
           = <<"user", "user", "assistant", "assistant">>
    /\ messages[1][1].content # messages[1][2].content

\* C28: a turn whose call of the model or idea search raises is not rolled
\* back: when the call is made the user message is stored and counted and
\* the confidence of the session is as before the turn; the failure
\* changes nothing in the store and is answered 400 or 500, so the user message
\* stays, no assistant message is added, and a session the turn made stays.
C28_FailedTurnNotRolledBack ==
    [][/\ last'.op = "turn_suspended"
          => LET s == last'.turn.session_id
                 made == s \notin DOMAIN sessions
                 n == Len(messages'[s])
             IN /\ n = (IF made THEN 0 ELSE Len(messages[s])) + 1
                /\ ~made => IsPrefix(messages[s], messages'[s])
                /\ messages'[s][n].id = last'.turn.user_message_id
                /\ messages'[s][n].role = "user"
                /\ sessions'[s].message_count
                       = (IF made THEN 0 ELSE sessions[s].message_count) + 1
                /\ sessions'[s].context_confidence
                       = (IF made THEN DefaultContextConfidence
                          ELSE sessions[s].context_confidence)
       /\ last'.op = "turn_failed"
          => LET s == last'.turn.session_id
             IN /\ last'.status = (IF last'.raised = "ValueError" THEN 400 ELSE 500)
                /\ sessions' = sessions
                /\ messages' = messages
                /\ s \in DOMAIN sessions'
                /\ \E i \in 1..Len(messages'[s]) :
                       messages'[s][i].id = last'.turn.user_message_id
                /\ (turns[s] = 0 /\ Pending(s, inflight) = {last'.turn}
                        /\ last'.turn.request.session_id = None)
                   => /\ Len(messages'[s]) = 1
                      /\ messages'[s][1].role = "user"
                      /\ sessions'[s].message_count = 1
                      /\ sessions'[s].context_confidence = DefaultContextConfidence]_vars

C28_Witness ==
    /\ last.op = "turn_failed"
    /\ last.at = "_search_ideas"
    /\ last.raised = "ValueError"
    /\ last.status = 400
    /\ last.turn.request.session_id = None
    /\ last.turn.session_id \in DOMAIN sessions
    /\ DOMAIN sessions = {1}
    /\ Len(messages[1]) = 1
    /\ messages[1][1].role = "user"
    /\ sessions[1].message_count = 1
    /\ sessions[1].context_confidence = DefaultContextConfidence
    /\ sessions[1].updated_at = 0

====
